---- MODULE Spec2Model ----
(***************************************************************************)
(* Model of the build_index action of terraform-provider-capellaextras:    *)
(* BuildIndexAction.Invoke (internal/actions), the index API functions     *)
(* GetIndexBuildStatus / BuildDeferredIndexes (api/indexes) and the HTTP   *)
(* client Client.Do with its authenticators (api/client).                  *)
(*                                                                         *)
(* One invocation is a sequential process.  Every remote call blocks, so   *)
(* the model steps from one remote call to the next; the cancellation of   *)
(* the invocation's context is an environment action that may happen       *)
(* between any two steps.                                                  *)
(***************************************************************************)
EXTENDS Integers, Sequences, FiniteSets, TLC

\* ------------------------------------------------------------------ bounds
\* longest index_names list an invocation is given
MaxIndexes == 2
\* re-polls WaitForScheduledIndexCreation makes before it gives up
MaxPolls == 2
\* longest index-name list handed to the statement builder in SpecStatement
MaxStmtNames == 3

\* ------------------------------------------------------------- input sets
IndexNameSet == {"idx1", "idx 2"}
OrgIdSet == {"org1", ""}
Statuses == {"Created", "Scheduled for Creation", "Building"}

\* a types.String attribute: null, or a known value
StringNull == [null |-> TRUE, value |-> ""]
StringValue(v) == [null |-> FALSE, value |-> v]
ScopeAttrSet == {StringNull, StringValue("s")}
CollectionAttrSet == {StringNull, StringValue("c")}

RECURSIVE SeqsUpTo(_, _)
SeqsUpTo(S, n) ==
  IF n = 0 THEN {<<>>}
  ELSE LET shorter == SeqsUpTo(S, n - 1)
       IN  shorter \cup {Append(q, x) : q \in {r \in shorter : Len(r) = n - 1}, x \in S}

\* the nil error
Nil == "<nil>"

\* --------------------------------------------------------- authenticators
AuthNone == [kind |-> "none", Token |-> ""]
BearerTokenAuth(t) == [kind |-> "bearer", Token |-> t]
AuthSet == {AuthNone, BearerTokenAuth(""), BearerTokenAuth("abc123")}

SetHeader(h, k, v) == (k :> v) @@ h

BearerApplyAlways(a, h) == SetHeader(h, "Authorization", "Bearer " \o a.Token)

\* BearerTokenAuth.Apply: the header is set only for a non-empty token
BearerApply(a, h) ==
  IF a.Token = "" THEN h
  ELSE SetHeader(h, "Authorization", "Bearer " \o a.Token)

\* ------------------------------------------------------------ HTTP bodies
Body(kind, status, code, message) ==
  [kind |-> kind, status |-> status, code |-> code, message |-> message]

StatusBody(s) == Body("status", s, "", "")      \* {"status": "<s>"}
EmptyBody == Body("empty", "", "", "")           \* no bytes at all
NullBody == Body("null", "", "", "")             \* the JSON value null
ObjectBody == Body("object", "", "", "")         \* {}
BuildErrorBody == Body("build_error", "", "", "x") \* {"error": "x"}
ApiErrorBody(c, m) == Body("apierror", "", c, m) \* {"code": c, "message": m}
RawBody == Body("raw", "", "", "oops")           \* not JSON

\* string(b): the bytes of a body as text
BodyText(b) ==
  CASE b.kind = "empty" -> ""
    [] b.kind = "null" -> "null"
    [] b.kind = "object" -> "{}"
    [] b.kind = "raw" -> b.message
    [] b.kind = "status" -> "{\"status\":\"" \o b.status \o "\"}"
    [] b.kind = "build_error" -> "{\"error\":\"" \o b.message \o "\"}"
    [] OTHER -> "{\"code\":\"" \o b.code \o "\",\"message\":\"" \o b.message \o "\"}"

Reply(transport, code, body) == [transport |-> transport, code |-> code, body |-> body]
TransportFailure == Reply("fail", 0, EmptyBody)

\* what the status endpoint may answer
StatusReplies ==
  {TransportFailure}
    \cup {Reply("ok", 200, StatusBody(s)) : s \in Statuses}
    \cup {Reply("ok", 200, EmptyBody), Reply("ok", 200, NullBody),
          Reply("ok", 200, BuildErrorBody),
          Reply("ok", 401, ApiErrorBody("unauthorized", "no token")),
          Reply("ok", 500, RawBody)}

\* what the build endpoint may answer
BuildReplies ==
  {TransportFailure,
   Reply("ok", 200, ObjectBody), Reply("ok", 200, BuildErrorBody),
   Reply("ok", 200, EmptyBody), Reply("ok", 200, StatusBody("Created")),
   Reply("ok", 401, ApiErrorBody("unauthorized", "no token")),
   Reply("ok", 500, RawBody)}

\* ------------------------------------------------------------- api errors
ApiErrorTextAlwaysBoth(e) == e.code \o ": " \o e.message

\* apiError.Error
ApiErrorText(e) ==
  IF e.code = "" /\ e.message = "" THEN "capella api error"
  ELSE IF e.code = "" THEN e.message
  ELSE IF e.message = "" THEN e.code
  ELSE e.code \o ": " \o e.message

\* json.Unmarshal(b, &ae) == nil: the body is JSON that fits apiError
UnmarshalsAsApiError(b) == b.kind \in {"apierror", "object", "null", "build_error", "status"}
ApiErrorOf(b) == IF b.kind = "apierror" THEN [code |-> b.code, message |-> b.message]
                 ELSE [code |-> "", message |-> ""]

\* ------------------------------------------------------------ json decode
\* a decoded *IndexBuildStatusResponse / *IndexBuildResponse (nil, or the value)
NilOut == [nil |-> TRUE, Status |-> "", Error |-> ""]
OutStatus(s) == [nil |-> FALSE, Status |-> s, Error |-> ""]
\* an IndexBuildResponse whose error field holds e ("" for an absent one)
OutBuild(e) == [nil |-> FALSE, Status |-> "", Error |-> e]

\* dec.DisallowUnknownFields(); dec.Decode(out) into a pointer to a nil pointer
\* of the target type ("status": IndexBuildStatusResponse, "build": IndexBuildResponse)
Decode(b, target) ==
  CASE b.kind = "empty" -> [err |-> "EOF", out |-> NilOut]
    [] b.kind = "null" -> [err |-> Nil, out |-> NilOut]
    [] b.kind = "object" -> [err |-> Nil, out |-> OutStatus("")]
    [] b.kind = "raw" -> [err |-> "invalid character", out |-> NilOut]
    [] b.kind = "status" ->
         IF target = "status" THEN [err |-> Nil, out |-> OutStatus(b.status)]
         ELSE [err |-> "json: unknown field \"status\"", out |-> OutStatus("")]
    [] b.kind = "build_error" ->
         IF target = "build" THEN [err |-> Nil, out |-> OutBuild(b.message)]
         ELSE [err |-> "json: unknown field \"error\"", out |-> OutStatus("")]
    [] OTHER -> [err |-> "json: unknown field \"code\"", out |-> OutStatus("")]

\* ---------------------------------------------------------------- client
DefaultBaseURL == "https://cloudapi.cloud.couchbase.com"
DefaultUserAgent == "capellaextras-terraform-provider/unknown"

\* NewClient(WithBaseURL(host), WithAuthenticator(auth))
NewClient(auth) == [BaseURL |-> DefaultBaseURL, UserAgent |-> DefaultUserAgent, Auth |-> auth]

NoHeaders == [k \in {} |-> ""]
NoQuery == [k \in {} |-> ""]
NoHTTP == [method |-> "", path |-> <<>>, query |-> NoQuery, headers |-> NoHeaders, body |-> ""]

\* path.Clean("/" + p): empty segments ("//") collapse
CleanPath(segs) == SelectSeq(segs, LAMBDA x : x # "")

\* url.PathEscape on the names of IndexNameSet
PathEscape(name) == IF name = "idx 2" THEN "idx%202" ELSE name

HTTPSendsAlways(ctxDone) == TRUE

\* c.HTTP.Do(req) with req.WithContext(ctx): a request whose context is already
\* done is not sent, the call returns the context's error
HTTPSends(ctxDone) == ~ctxDone

\* the nil *http.Response
NoResp == 0

DoResult(sent, http, resp, err, out) ==
  [sent |-> sent, http |-> http, resp |-> resp, err |-> err, out |-> out]

IsSuccessCodeUpTo300(code) == code >= 200 /\ code <= 300

\* the negation of resp.StatusCode < 200 || resp.StatusCode >= 300
IsSuccessCode(code) == ~(code < 200 \/ code >= 300)

\* Client.Do.  target is the type out points to ("status" or "build"), or "none"
\* for a nil out; reply is the server's answer, used only when the request is
\* sent.  resp is the status code of the response returned, NoResp for nil.
Do(c, ctxDone, method, p, query, hasBody, body, target, reply) ==
  IF c.BaseURL = ""
  THEN DoResult(FALSE, NoHTTP, NoResp, "client BaseURL not configured", NilOut)
  ELSE
    LET h1 == IF hasBody THEN SetHeader(NoHeaders, "Content-Type", "application/json")
              ELSE NoHeaders
        h2 == SetHeader(h1, "Accept", "application/json")
        h3 == IF c.UserAgent # "" THEN SetHeader(h2, "User-Agent", c.UserAgent) ELSE h2
        h4 == IF c.Auth.kind = "none" THEN h3 ELSE BearerApply(c.Auth, h3)
        req == [method |-> method, path |-> CleanPath(p), query |-> query,
                headers |-> h4, body |-> body]
    IN  IF ~HTTPSends(ctxDone)
        THEN DoResult(FALSE, req, NoResp, "context canceled", NilOut)
        ELSE IF reply.transport = "fail"
        THEN DoResult(TRUE, req, NoResp, "transport error", NilOut)
        ELSE IF ~IsSuccessCode(reply.code) THEN
          IF UnmarshalsAsApiError(reply.body)
               /\ (ApiErrorOf(reply.body).code # "" \/ ApiErrorOf(reply.body).message # "")
          THEN DoResult(TRUE, req, reply.code,
                        ApiErrorText(ApiErrorOf(reply.body)) \o " (status "
                          \o ToString(reply.code) \o ")", NilOut)
          ELSE DoResult(TRUE, req, reply.code,
                        "capella api request failed: status " \o ToString(reply.code)
                          \o ", body: " \o BodyText(reply.body), NilOut)
        ELSE IF target = "none" THEN DoResult(TRUE, req, reply.code, Nil, NilOut)
        ELSE
          LET d == Decode(reply.body, target)
          IN  IF d.err = "EOF" THEN DoResult(TRUE, req, reply.code, Nil, d.out)
              ELSE DoResult(TRUE, req, reply.code, d.err, d.out)

\* ------------------------------------------------------------ api/indexes
\* GetIndexBuildStatus: returns the (out, err) of Do as (res, err)
GetIndexBuildStatus(c, ctxDone, req, reply) ==
  Do(c, ctxDone, "GET",
     <<"v4", "organizations", req.OrganizationId, "projects", req.ProjectId,
       "clusters", req.ClusterId, "queryService", "indexBuildStatus",
       PathEscape(req.IndexName)>>,
     [bucket |-> req.Bucket, scope |-> req.Scope, collection |-> req.Collection],
     FALSE, "", "status", reply)

RECURSIVE Join(_, _)
\* strings.Join
Join(names, sep) ==
  IF Len(names) = 0 THEN ""
  ELSE IF Len(names) = 1 THEN names[1]
  ELSE names[1] \o sep \o Join(Tail(names), sep)

\* the backquote character of the Go source, which a TLA+ string cannot hold
Backtick == "[backtick]"

\* a coordinate between backquotes
Quoted(x) == Backtick \o x \o Backtick

BuildStatementSwapped(bucket, scope, collection, names) ==
  "BUILD INDEX ON " \o Quoted(bucket) \o "." \o Quoted(collection) \o "."
    \o Quoted(scope) \o "(" \o Join(names, ", ") \o ")"

\* fmt.Sprintf of the BUILD INDEX ON format with Bucket, Scope, Collection and
\* strings.Join(IndexNames, ", ")
BuildStatement(bucket, scope, collection, names) ==
  "BUILD INDEX ON " \o Quoted(bucket) \o "." \o Quoted(scope) \o "."
    \o Quoted(collection) \o "(" \o Join(names, ", ") \o ")"

\* BuildDeferredIndexes: returns the (out, err) of Do as (res, err)
BuildDeferredIndexes(c, ctxDone, req, reply) ==
  Do(c, ctxDone, "POST",
     <<"v4", "organizations", req.OrganizationId, "projects", req.ProjectId,
       "clusters", req.ClusterId, "queryService", "indexes">>,
     NoQuery, TRUE,
     BuildStatement(req.Bucket, req.Scope, req.Collection, req.IndexNames),
     "build", reply)

\* ------------------------------------------------------------------ state
VARIABLES
  data,          \* BuildIndexActionModel: the action's configuration
  client,        \* the *apiclient.Client the action was configured with
  pc,            \* where Invoke is: start, loop, wait, build, done
  cancelled,     \* ctx.Done() of the invocation's context
  scope,         \* Invoke's local scope
  collection,    \* Invoke's local collection
  indexNames,    \* Invoke's local indexNames
  i,             \* position of the range loop in indexNames (1-based)
  res,           \* Invoke's local res (*IndexBuildStatusResponse)
  buildIndexes,  \* Invoke's local buildIndexes
  polls,         \* re-polls made by the running WaitForScheduledIndexCreation
  progress,      \* messages passed to resp.SendProgress, in order
  diags,         \* resp.Diagnostics
  panicked,      \* Invoke dereferenced a nil res
  calls,         \* history: every call of an api/indexes function, in order
  decided,       \* history: every evaluation of the batch test of the loop body
  cancelAt,      \* history: Len(calls) when the context was cancelled, else -1
  fx             \* scratch variable of the pure-function specifications

vars == <<data, client, pc, cancelled, scope, collection, indexNames, i, res,
          buildIndexes, polls, progress, diags, panicked, calls, decided,
          cancelAt, fx>>

NoFx == [op |-> "none", bucket |-> "", scope |-> "", collection |-> "",
         names |-> <<>>, out |-> ""]

ValueString(a) == a.value

ConfigSet ==
  [OrganizationId : {StringValue(o) : o \in OrgIdSet},
   ProjectId : {StringValue("proj1")},
   ClusterId : {StringValue("cl1")},
   BucketName : {StringValue("b")},
   IndexNames : SeqsUpTo(IndexNameSet, MaxIndexes),
   ScopeName : ScopeAttrSet,
   CollectionName : CollectionAttrSet]

\* the configurations of one fixed location
PlainConfigSet ==
  {d \in ConfigSet : /\ d.OrganizationId = StringValue("org1")
                     /\ d.ScopeName.null /\ ~d.CollectionName.null}

\* configuration and client of an invocation: every configuration with the
\* provider's bearer-token client, every authenticator with a plain configuration
InvocationSet ==
  {<<d, NewClient(BearerTokenAuth("abc123"))>> : d \in ConfigSet}
    \cup {<<d, NewClient(a)>> : d \in PlainConfigSet, a \in AuthSet}

Init ==
  /\ \E inv \in InvocationSet : data = inv[1] /\ client = inv[2]
  /\ pc = "start"
  /\ cancelled = FALSE
  /\ scope = ""
  /\ collection = ""
  /\ indexNames = <<>>
  /\ i = 1
  /\ res = NilOut
  /\ buildIndexes = <<>>
  /\ polls = 0
  /\ progress = <<>>
  /\ diags = <<>>
  /\ panicked = FALSE
  /\ calls = <<>>
  /\ decided = <<>>
  /\ cancelAt = -1
  /\ fx = NoFx

\* ----------------------------------------------------------------- Invoke
ResolveDefaultEmpty(attr) == ValueString(attr)

\* the defaulting of scope and collection at the top of Invoke
ResolveDefault(attr) == IF attr.null THEN "_default" ELSE ValueString(attr)

NeedsWaitNever(status) == FALSE

\* the test that sends an index into WaitForScheduledIndexCreation
NeedsWait(status) == status = "Scheduled for Creation"

IsBuildableReady(status) == status = "Ready"

IsBuildableNotScheduled(status) == status # "Scheduled for Creation"

\* the test that puts an index into the batch
IsBuildable(status) == status = "Created"

\* the IndexBuildStatusRequest Invoke builds for one index
IbReq(name) ==
  [OrganizationId |-> ValueString(data.OrganizationId),
   ProjectId |-> ValueString(data.ProjectId),
   ClusterId |-> ValueString(data.ClusterId),
   Bucket |-> ValueString(data.BucketName),
   IndexName |-> name, IndexNames |-> <<>>,
   Scope |-> scope, Collection |-> collection]

\* the IndexBuildRequest Invoke builds for the batch
BuildReq(names) ==
  [OrganizationId |-> ValueString(data.OrganizationId),
   ProjectId |-> ValueString(data.ProjectId),
   ClusterId |-> ValueString(data.ClusterId),
   Bucket |-> ValueString(data.BucketName),
   IndexName |-> "", IndexNames |-> names,
   Scope |-> scope, Collection |-> collection]

Diag(summary, index, err) == [summary |-> summary, index |-> index, err |-> err]

ProgressStatusNameOnly(name, status) == "Index: " \o name

\* the progress message of one status query
ProgressStatus(name, status) == "Index: " \o name \o ", Status: " \o status
ProgressNothing == "No indexes need built"
ProgressNeedBuilt(names) ==
  "The following indexes need built: [" \o Join(names, " ") \o "]"
ProgressFinished == "finished action invocation, Indexes will be built in the background."

\* one entry of the call history
Call(fn, by, pos, req, r) ==
  [fn |-> fn, by |-> by, pos |-> pos, req |-> req, sent |-> r.sent, http |-> r.http,
   err |-> r.err, out |-> r.out, afterCancel |-> cancelled]

\* the batch test at the end of the loop body, and the step to the next index;
\* first is the status the query returned, final the status res holds at the
\* test, at the number of calls made when the test is evaluated
Classify(first, final, npolls) ==
  /\ buildIndexes' = IF IsBuildable(final) THEN Append(buildIndexes, indexNames[i])
                     ELSE buildIndexes
  /\ decided' = Append(decided,
                       [pos |-> i, name |-> indexNames[i], first |-> first,
                        final |-> final, polls |-> npolls,
                        included |-> IsBuildable(final), at |-> Len(calls')])
  /\ i' = i + 1

\* Invoke up to the loop: read the configuration, default scope and collection,
\* convert index_names
InvokeStart ==
  /\ pc = "start"
  /\ \E cfgErr \in {"none", "get", "elements"} :
       IF cfgErr = "get"
       THEN /\ diags' = Append(diags, Diag("config", "", "Config.Get"))
            /\ pc' = "done"
            /\ UNCHANGED <<scope, collection, indexNames>>
       ELSE /\ scope' = ResolveDefault(data.ScopeName)
            /\ collection' = ResolveDefault(data.CollectionName)
            /\ IF cfgErr = "elements"
               THEN /\ diags' = Append(diags, Diag("config", "", "ElementsAs"))
                    /\ pc' = "done"
                    /\ UNCHANGED indexNames
               ELSE /\ indexNames' = data.IndexNames
                    /\ pc' = "loop"
                    /\ UNCHANGED diags
  /\ UNCHANGED <<data, client, cancelled, i, res, buildIndexes, polls, progress,
                 panicked, calls, decided, cancelAt, fx>>

QueryFailedContinue(name, err) ==
  /\ diags' = Append(diags, Diag("Get Index Build Status Failed", name, err))
  /\ pc' = "loop"
  /\ i' = i + 1
  /\ UNCHANGED <<res, progress, panicked, buildIndexes, decided, polls>>

\* the error branch of the status query: add the diagnostic and return
QueryFailed(name, err) ==
  /\ diags' = Append(diags, Diag("Get Index Build Status Failed", name, err))
  /\ pc' = "done"
  /\ UNCHANGED <<res, progress, panicked, buildIndexes, decided, i, polls>>

\* one iteration of the loop up to the call of WaitForScheduledIndexCreation,
\* or to the end of the loop body when the index is not waited for
QueryStatus ==
  /\ pc = "loop"
  /\ i <= Len(indexNames)
  /\ \E reply \in StatusReplies :
       LET name == indexNames[i]
           r == GetIndexBuildStatus(client, cancelled, IbReq(name), reply)
           c == Call("GetIndexBuildStatus", "Invoke", i, IbReq(name), r)
       IN  IF r.err # Nil
           THEN /\ calls' = Append(calls, c)
                /\ QueryFailed(name, r.err)
           ELSE IF r.out.nil
           THEN /\ panicked' = TRUE
                /\ calls' = Append(calls, c)
                /\ pc' = "done"
                /\ UNCHANGED <<res, progress, diags, buildIndexes, decided, i, polls>>
           ELSE /\ res' = r.out
                /\ progress' = Append(progress, ProgressStatus(name, r.out.Status))
                /\ IF NeedsWait(r.out.Status)
                   THEN /\ calls' = calls \o
                             <<c, [fn |-> "WaitForScheduledIndexCreation", by |-> "Invoke",
                                   pos |-> i, req |-> IbReq(name), sent |-> FALSE,
                                   http |-> NoHTTP, err |-> Nil, out |-> NilOut,
                                   afterCancel |-> cancelled]>>
                        /\ pc' = "wait"
                        /\ polls' = 0
                        /\ UNCHANGED <<buildIndexes, decided, i>>
                   ELSE /\ calls' = Append(calls, c)
                        /\ pc' = "loop"
                        /\ UNCHANGED polls
                        /\ Classify(r.out.Status, r.out.Status, 0)
                /\ UNCHANGED <<diags, panicked>>
  /\ UNCHANGED <<data, client, cancelled, scope, collection, indexNames, cancelAt, fx>>

\* what a re-poll of the status endpoint may answer inside the wait
WaitReplies == {y \in StatusReplies : y.body.kind \notin {"empty", "null"}}

WaitGivesUpNever(n) == FALSE

\* the wait gives up when n re-polls all found the index still scheduled
WaitGivesUp(n) == n >= MaxPolls

WaitFailedContinue(name, e) ==
  /\ diags' = Append(diags, Diag("Wait for Scheduled Index Creation Failed", name, e))
  /\ pc' = "loop"
  /\ i' = i + 1
  /\ polls' = polls + 1
  /\ UNCHANGED <<res, buildIndexes, decided>>

WaitFailedSwallowed(name, e) ==
  /\ pc' = "loop"
  /\ i' = i + 1
  /\ polls' = polls + 1
  /\ UNCHANGED <<diags, res, buildIndexes, decided>>

\* the error branch of the wait in Invoke: add the diagnostic and return
WaitFailed(name, e) ==
  /\ diags' = Append(diags, Diag("Wait for Scheduled Index Creation Failed", name, e))
  /\ pc' = "done"
  /\ polls' = polls + 1
  /\ UNCHANGED <<res, buildIndexes, decided, i>>

\* WaitForScheduledIndexCreation, one re-poll per step, and the rest of the loop
\* body of Invoke when the wait returns.  The wait re-polls GetIndexBuildStatus
\* with the request it was given until the status is no longer scheduled; it
\* returns an error when a re-poll fails and when MaxPolls re-polls all found
\* the index still scheduled.
WaitPoll ==
  /\ pc = "wait"
  /\ \E reply \in WaitReplies :
       LET name == indexNames[i]
           r == GetIndexBuildStatus(client, cancelled, IbReq(name), reply)
           c == Call("GetIndexBuildStatus", "Wait", i, IbReq(name), r)
       IN  /\ calls' = Append(calls, c)
           /\ IF r.err # Nil THEN WaitFailed(name, r.err)
              ELSE IF r.out.Status = "Scheduled for Creation"
              THEN IF WaitGivesUp(polls + 1)
                   THEN WaitFailed(name, "timeout waiting for scheduled index creation")
                   ELSE /\ polls' = polls + 1
                        /\ UNCHANGED <<pc, res, diags, buildIndexes, decided, i>>
              ELSE /\ res' = r.out
                   /\ polls' = polls + 1
                   /\ Classify(res.Status, r.out.Status, polls + 1)
                   /\ pc' = "loop"
                   /\ UNCHANGED diags
  /\ UNCHANGED <<data, client, cancelled, scope, collection, indexNames, progress,
                 panicked, cancelAt, fx>>

NothingToBuildNever(batch) == FALSE

\* the test len(buildIndexes) == 0 after the loop
NothingToBuild(batch) == Len(batch) = 0

\* Invoke after the loop, up to the call of BuildDeferredIndexes
AfterLoop ==
  /\ pc = "loop"
  /\ i > Len(indexNames)
  /\ IF NothingToBuild(buildIndexes)
     THEN /\ progress' = Append(progress, ProgressNothing)
          /\ pc' = "done"
     ELSE /\ progress' = Append(progress, ProgressNeedBuilt(buildIndexes))
          /\ pc' = "build"
  /\ UNCHANGED <<data, client, cancelled, scope, collection, indexNames, i, res,
                 buildIndexes, polls, diags, panicked, calls, decided, cancelAt, fx>>

BuildFailedStillFinishes(err) ==
  /\ diags' = Append(diags, Diag("Build Deferred Indexes Failed", "", err))
  /\ progress' = Append(progress, ProgressFinished)

\* the error branch of the build call: add the diagnostic and return
BuildFailed(err) ==
  /\ diags' = Append(diags, Diag("Build Deferred Indexes Failed", "", err))
  /\ UNCHANGED progress

BuildSubmittedWithoutErrorField(r) == r.err = Nil /\ r.out.Error = ""

\* the test err != nil after the build call, negated: the response itself is
\* assigned to the blank identifier
BuildSubmitted(r) == r.err = Nil

\* the call of BuildDeferredIndexes and the end of Invoke
Build ==
  /\ pc = "build"
  /\ \E reply \in BuildReplies :
       LET r == BuildDeferredIndexes(client, cancelled, BuildReq(buildIndexes), reply)
       IN  /\ calls' = Append(calls,
                         Call("BuildDeferredIndexes", "Invoke", 0, BuildReq(buildIndexes), r))
           /\ IF ~BuildSubmitted(r)
              THEN BuildFailed(r.err)
              ELSE /\ progress' = Append(progress, ProgressFinished)
                   /\ UNCHANGED diags
  /\ pc' = "done"
  /\ UNCHANGED <<data, client, cancelled, scope, collection, indexNames, i, res,
                 buildIndexes, polls, panicked, decided, cancelAt, fx>>

\* the caller cancels the context of the invocation, or its deadline passes
Cancel ==
  /\ pc # "done"
  /\ ~cancelled
  /\ cancelled' = TRUE
  /\ cancelAt' = Len(calls)
  /\ UNCHANGED <<data, client, pc, scope, collection, indexNames, i, res,
                 buildIndexes, polls, progress, diags, panicked, calls, decided, fx>>

Next ==
  \/ InvokeStart
  \/ QueryStatus
  \/ WaitPoll
  \/ AfterLoop
  \/ Build
  \/ Cancel

Spec == Init /\ [][Next]_vars

\* ------------------------------------------------------- derived notions
Done == pc = "done"
HasError == diags # <<>>
Success == Done /\ ~HasError /\ ~panicked

CallsOf(fn) == {k \in 1..Len(calls) : calls[k].fn = fn}
BuildCalls == CallsOf("BuildDeferredIndexes")
\* the status queries Invoke makes itself (not the re-polls of the wait)
InvokeQueries == {k \in 1..Len(calls) :
                    calls[k].fn = "GetIndexBuildStatus" /\ calls[k].by = "Invoke"}

TypeOK ==
  /\ pc \in {"start", "loop", "wait", "build", "done"}
  /\ cancelled \in BOOLEAN
  /\ i \in 1..(MaxIndexes + 1)
  /\ polls \in 0..MaxPolls
  /\ Len(buildIndexes) <= Len(indexNames)

\* the configuration was read: neither Config.Get nor ElementsAs reported an error
ConfigRead == pc # "start" /\ \A k \in 1..Len(diags) : diags[k].summary # "config"

\* the status query Invoke made for position p returned the status st
QueryReturned(p, st) ==
  \E k \in InvokeQueries :
    /\ calls[k].pos = p
    /\ calls[k].err = Nil
    /\ ~calls[k].out.nil
    /\ calls[k].out.Status = st

\* every requested index was queried by Invoke and reported Created
AllCreated ==
  /\ ConfigRead
  /\ Len(indexNames) > 0
  /\ \A p \in 1..Len(indexNames) : QueryReturned(p, "Created")

\* every requested index was queried by Invoke and reported a status that is
\* neither Created nor Scheduled for Creation
AllOther ==
  /\ ConfigRead
  /\ \A p \in 1..Len(indexNames) :
       \E st \in Statuses \ {"Created", "Scheduled for Creation"} : QueryReturned(p, st)

\* ------------------------------------------------------------------ C1
\* C1 as stated: when every status query of Invoke returns Created for a
\* non-empty list, the invocation makes exactly one BuildDeferredIndexes call
\* with the requested names in input order and ends without an error.
C1_AsStated ==
  (Done /\ AllCreated) =>
    /\ Cardinality(BuildCalls) = 1
    /\ \A k \in BuildCalls : calls[k].req.IndexNames = data.IndexNames
    /\ ~HasError

\* C1 amended: when every status query of Invoke returns Created for a non-empty
\* list, the invocation makes exactly one BuildDeferredIndexes call with the
\* requested names in input order; it ends without an error when that call
\* returns no error and with the one build diagnostic when it returns an error.
C1_AllCreatedOneBuild ==
  (Done /\ AllCreated) =>
    /\ Cardinality(BuildCalls) = 1
    /\ ~panicked
    /\ \A k \in BuildCalls :
         /\ calls[k].req.IndexNames = data.IndexNames
         /\ k = Len(calls)
         /\ (calls[k].err = Nil => diags = <<>>)
         /\ (calls[k].err # Nil =>
               diags = <<Diag("Build Deferred Indexes Failed", "", calls[k].err)>>)

C1_Witness ==
  /\ Done /\ AllCreated /\ Success
  /\ Len(indexNames) = 2
  /\ indexNames[1] # indexNames[2]
  /\ \E k \in BuildCalls : calls[k].sent

\* ------------------------------------------------------------------ C2
\* C2: when every status query of Invoke returns a status other than Created
\* and Scheduled for Creation, the invocation makes no build call and ends in
\* success with an empty batch after the "No indexes need built" event.
C2_AllOtherNoBuild ==
  (Done /\ AllOther) =>
    /\ BuildCalls = {}
    /\ Success
    /\ buildIndexes = <<>>
    /\ Len(progress) = Len(indexNames) + 1
    /\ progress[Len(progress)] = "No indexes need built"

C2_Witness ==
  /\ Done /\ AllOther
  /\ Len(indexNames) = 2
  /\ QueryReturned(2, "Building")

\* ------------------------------------------------------------------ C3
\* C3: when the status query Invoke makes for position N fails, the invocation
\* is over with the one diagnostic that names the index at N, no build call was
\* made, and no call was made for an index after N.
C3_QueryFailureAborts ==
  \A k \in InvokeQueries :
    calls[k].err # Nil =>
      /\ Done
      /\ BuildCalls = {}
      /\ diags = <<Diag("Get Index Build Status Failed",
                        data.IndexNames[calls[k].pos], calls[k].err)>>
      /\ \A j \in 1..Len(calls) : j <= k /\ calls[j].pos <= calls[k].pos

C3_Witness ==
  /\ Done
  /\ Len(indexNames) = 2
  /\ buildIndexes = <<indexNames[1]>>
  /\ \E k \in InvokeQueries :
       calls[k].err # Nil /\ calls[k].pos = 2 /\ calls[k].sent

\* ------------------------------------------------------------------ C4
\* the re-polls the wait made for position p, in order
PollsAt(p) ==
  SelectSeq(calls, LAMBDA c : c.fn = "GetIndexBuildStatus" /\ c.by = "Wait" /\ c.pos = p)

\* C4: the batch test is never evaluated on the status Scheduled for Creation.
\* An index first reported scheduled is re-polled through the wait, every
\* re-poll before the last found it still scheduled, the last one gave the
\* status the batch test used, and an index that was Created at its first
\* re-poll is in the batch.  While the wait runs nothing is decided for its index.
C4_ScheduledRepolled ==
  /\ \A n \in 1..Len(decided) :
       LET d == decided[n]
           ps == PollsAt(d.pos)
       IN  /\ d.final # "Scheduled for Creation"
           /\ d.included <=> (d.final = "Created")
           /\ d.first # "Scheduled for Creation" => (Len(ps) = 0 /\ d.final = d.first)
           /\ d.first = "Scheduled for Creation" =>
                /\ Len(ps) >= 1
                /\ Len(ps) = d.polls
                /\ \E w \in CallsOf("WaitForScheduledIndexCreation") : calls[w].pos = d.pos
                /\ \A m \in 1..(Len(ps) - 1) :
                     ps[m].err = Nil /\ ps[m].out.Status = "Scheduled for Creation"
                /\ ps[Len(ps)].err = Nil /\ ps[Len(ps)].out.Status = d.final
                /\ (Len(ps) = 1 /\ d.final = "Created") =>
                     \E b \in 1..Len(buildIndexes) : buildIndexes[b] = d.name
  /\ pc = "wait" =>
       /\ res.Status = "Scheduled for Creation"
       /\ \A n \in 1..Len(decided) : decided[n].pos < i

C4_Witness ==
  /\ Done /\ Success
  /\ \E n \in 1..Len(decided) :
       /\ decided[n].first = "Scheduled for Creation"
       /\ decided[n].polls = 1
       /\ decided[n].final = "Created"
       /\ buildIndexes = <<decided[n].name>>
  /\ \E k \in BuildCalls : calls[k].sent /\ calls[k].req.IndexNames = buildIndexes

\* ------------------------------------------------------------------ C5
\* every requested index got its final status: all queries and waits returned one
AllClassified == ConfigRead /\ Len(decided) = Len(data.IndexNames)

\* C5: an invocation never makes more than one BuildDeferredIndexes call; when
\* it is over it has made exactly one if every query and wait returned a status
\* and the batch is non-empty, and none otherwise; the call carries the batch.
C5_AtMostOneBuild ==
  /\ Cardinality(BuildCalls) <= 1
  /\ \A k \in BuildCalls :
       /\ AllClassified
       /\ calls[k].req.IndexNames = buildIndexes
       /\ buildIndexes # <<>>
       /\ calls[k].req.IndexNames =
            [n \in 1..Len(buildIndexes) |->
               SelectSeq(decided, LAMBDA d : d.final = "Created")[n].name]
  /\ Done =>
       IF AllClassified /\ \E n \in 1..Len(decided) : decided[n].final = "Created"
       THEN Cardinality(BuildCalls) = 1
       ELSE BuildCalls = {}

C5_Witness ==
  /\ Done
  /\ Len(decided) = 2
  /\ decided[1].final = "Building"
  /\ decided[2].final = "Created"
  /\ Cardinality(BuildCalls) = 1
  /\ \E k \in BuildCalls : calls[k].req.IndexNames = <<data.IndexNames[2]>>

\* ------------------------------------------------------------------ C6
\* C6: once the configuration is read, scope is "_default" when scope_name is
\* null and the configured value otherwise, likewise collection; every status
\* query, wait and build call carries these two and the configured
\* organization, project, cluster and bucket, in the request value, in the query
\* parameters of a status request and in the statement of the build request.
C6_SharedCoordinates ==
  ConfigRead =>
    /\ data.ScopeName.null => scope = "_default"
    /\ ~data.ScopeName.null => scope = data.ScopeName.value
    /\ data.CollectionName.null => collection = "_default"
    /\ ~data.CollectionName.null => collection = data.CollectionName.value
    /\ \A k \in 1..Len(calls) :
         LET c == calls[k]
         IN  /\ c.req.Scope = scope
             /\ c.req.Collection = collection
             /\ c.req.OrganizationId = data.OrganizationId.value
             /\ c.req.ProjectId = data.ProjectId.value
             /\ c.req.ClusterId = data.ClusterId.value
             /\ c.req.Bucket = data.BucketName.value
             /\ c.fn = "GetIndexBuildStatus" =>
                  /\ c.http.query["scope"] = scope
                  /\ c.http.query["collection"] = collection
                  /\ c.http.query["bucket"] = data.BucketName.value
             /\ c.fn = "BuildDeferredIndexes" =>
                  c.http.body =
                    "BUILD INDEX ON " \o Backtick \o data.BucketName.value \o Backtick
                      \o "." \o Backtick \o scope \o Backtick
                      \o "." \o Backtick \o collection \o Backtick
                      \o "(" \o Join(c.req.IndexNames, ", ") \o ")"

C6_Witness ==
  /\ Done
  /\ data.ScopeName.null /\ ~data.CollectionName.null
  /\ CallsOf("WaitForScheduledIndexCreation") # {}
  /\ \E k \in BuildCalls :
       /\ calls[k].sent
       /\ calls[k].req.Scope = "_default"
       /\ calls[k].req.Collection = "c"
       /\ Len(calls[k].req.IndexNames) = 2

\* ------------------------------------------------------------------ C7
StmtInputs ==
  [op : {"input"},
   bucket : {"b", "travel-sample"},
   scope : {"s", "_default"},
   collection : {"c", "_default"},
   names : SeqsUpTo({"idx1", "idx2", "a b"}, MaxStmtNames),
   out : {""}]

\* the inputs of one BuildDeferredIndexes call, drawn from StmtInputs; the
\* invocation itself is at rest
InitStatement ==
  /\ data = [OrganizationId |-> StringValue("org1"), ProjectId |-> StringValue("proj1"),
             ClusterId |-> StringValue("cl1"), BucketName |-> StringValue("b"),
             IndexNames |-> <<>>, ScopeName |-> StringNull,
             CollectionName |-> StringNull]
  /\ client = NewClient(BearerTokenAuth("abc123"))
  /\ pc = "done"
  /\ cancelled = FALSE
  /\ scope = ""
  /\ collection = ""
  /\ indexNames = <<>>
  /\ i = 1
  /\ res = NilOut
  /\ buildIndexes = <<>>
  /\ polls = 0
  /\ progress = <<>>
  /\ diags = <<>>
  /\ panicked = FALSE
  /\ calls = <<>>
  /\ decided = <<>>
  /\ cancelAt = -1
  /\ fx \in StmtInputs

\* BuildDeferredIndexes applied to the drawn request; out is the statement posted
PostStatement ==
  /\ fx.op = "input"
  /\ \E reply \in BuildReplies :
       LET req == [OrganizationId |-> "org1", ProjectId |-> "proj1", ClusterId |-> "cl1",
                   Bucket |-> fx.bucket, IndexName |-> "", IndexNames |-> fx.names,
                   Scope |-> fx.scope, Collection |-> fx.collection]
           r == BuildDeferredIndexes(client, cancelled, req, reply)
       IN  fx' = [fx EXCEPT !.op = IF r.err = Nil THEN "posted" ELSE "failed",
                            !.out = r.http.body]
  /\ UNCHANGED <<data, client, pc, cancelled, scope, collection, indexNames, i, res,
                 buildIndexes, polls, progress, diags, panicked, calls, decided,
                 cancelAt>>

NextStatement == PostStatement

SpecStatement == InitStatement /\ [][NextStatement]_vars

RECURSIVE CommaList(_)
\* n1, n2, ..., nk written out from the last name backwards
CommaList(names) ==
  IF names = <<>> THEN ""
  ELSE IF Len(names) = 1 THEN names[1]
  ELSE CommaList(SubSeq(names, 1, Len(names) - 1)) \o ", " \o names[Len(names)]

\* C7: the statement BuildDeferredIndexes posts is BUILD INDEX ON followed by
\* bucket, scope and collection, in this order, each between backquotes and
\* joined by dots, and the names in batch order joined by comma-space between
\* parentheses; for idx1, idx2 on b, s, c it is the statement of the example.
C7_StatementFormat ==
  fx.op \in {"posted", "failed"} =>
    /\ fx.out = "BUILD INDEX ON " \o Backtick \o fx.bucket \o Backtick \o "."
                  \o Backtick \o fx.scope \o Backtick \o "."
                  \o Backtick \o fx.collection \o Backtick
                  \o "(" \o CommaList(fx.names) \o ")"
    /\ (fx.bucket = "b" /\ fx.scope = "s" /\ fx.collection = "c"
          /\ fx.names = <<"idx1", "idx2">>) =>
         fx.out = "BUILD INDEX ON [backtick]b[backtick].[backtick]s[backtick]."
                    \o "[backtick]c[backtick](idx1, idx2)"

C7_Witness ==
  /\ fx.op = "posted"
  /\ fx.bucket = "b" /\ fx.scope = "s" /\ fx.collection = "c"
  /\ fx.names = <<"idx1", "idx2">>

\* ------------------------------------------------------------------ C8
\* C8: every request Client.Do builds for a status query, a re-poll or the build
\* call carries Authorization: Bearer T when the client authenticates with the
\* non-empty bearer token T, and no Authorization header when the token is
\* empty or there is no authenticator; the authenticator never stops a request:
\* every call made before the context is cancelled is sent.
C8_BearerHeader ==
  \A k \in 1..Len(calls) :
    calls[k].fn \in {"GetIndexBuildStatus", "BuildDeferredIndexes"} =>
      LET h == calls[k].http.headers
      IN  /\ (client.Auth.kind = "bearer" /\ client.Auth.Token # "") =>
               /\ "Authorization" \in DOMAIN h
               /\ h["Authorization"] = "Bearer " \o client.Auth.Token
               /\ client.Auth.Token = "abc123" => h["Authorization"] = "Bearer abc123"
          /\ (client.Auth.kind = "none" \/ client.Auth.Token = "") =>
               "Authorization" \notin DOMAIN h
          /\ ~calls[k].afterCancel => calls[k].sent
          /\ h["Accept"] = "application/json"

C8_Witness ==
  /\ Done
  /\ client.Auth = BearerTokenAuth("abc123")
  /\ \E k \in BuildCalls :
       calls[k].sent /\ calls[k].http.headers["Authorization"] = "Bearer abc123"
  /\ \E k \in InvokeQueries :
       calls[k].sent /\ calls[k].http.headers["Authorization"] = "Bearer abc123"
  /\ \E k \in 1..Len(calls) :
       calls[k].by = "Wait" /\ calls[k].sent
         /\ calls[k].http.headers["Authorization"] = "Bearer abc123"

\* ------------------------------------------------------------------ C9
\* a required coordinate is empty, or the index-name list is empty
ConfigurationMissing ==
  \/ data.OrganizationId.value = ""
  \/ data.ProjectId.value = ""
  \/ data.ClusterId.value = ""
  \/ data.BucketName.value = ""
  \/ data.IndexNames = <<>>

\* C9: an invocation with an empty required coordinate or an empty index-name
\* list makes no call of the remote API and, when it is over, has failed.
C9_ConfigurationFailsFast ==
  ConfigurationMissing =>
    /\ calls = <<>>
    /\ Done => HasError

\* ------------------------------------------------------------------ C10
\* C10 as stated: once the context is cancelled before the invocation is over,
\* no request is sent any more and the invocation ends with an error.
C10_AsStated ==
  cancelled =>
    /\ \A k \in 1..Len(calls) : calls[k].afterCancel => ~calls[k].sent
    /\ Done => HasError

\* C10 amended: a call of the remote API that starts after the context was
\* cancelled sends no request and returns an error, so no build request is sent
\* after the signal, and an invocation that starts such a call ends with an
\* error diagnostic at that call; an invocation with no remote call left when
\* the signal arrives ends as it does without the signal.
C10_CancelStopsCalls ==
  /\ \A k \in 1..Len(calls) :
       /\ calls[k].afterCancel <=> (cancelled /\ k > cancelAt)
       /\ calls[k].afterCancel =>
            /\ ~calls[k].sent
            /\ calls[k].err = "context canceled"
            /\ k = Len(calls)
            /\ Done /\ HasError /\ ~panicked
            /\ diags[Len(diags)].err = "context canceled"
  /\ (Done /\ cancelled /\ ~HasError) => Len(calls) = cancelAt

C10_Witness ==
  /\ Done /\ cancelled /\ HasError
  /\ buildIndexes # <<>>
  /\ \E k \in BuildCalls : calls[k].afterCancel /\ ~calls[k].sent

\* ------------------------------------------------------------------ C11
RECURSIVE CommaFree(_)
\* the names separated by single spaces, as %v prints a []string
CommaFree(names) ==
  IF names = <<>> THEN ""
  ELSE IF Len(names) = 1 THEN names[1]
  ELSE CommaFree(SubSeq(names, 1, Len(names) - 1)) \o " " \o names[Len(names)]

\* C11: when the build call returns an error the invocation is over with the
\* one build diagnostic, the "finished action invocation" event is not among
\* the progress events, and the last event is still the one that announced
\* the batch.
C11_BuildFailureNotBuilt ==
  \A k \in BuildCalls :
    calls[k].err # Nil =>
      /\ Done /\ ~Success
      /\ diags = <<Diag("Build Deferred Indexes Failed", "", calls[k].err)>>
      /\ \A n \in 1..Len(progress) :
           progress[n] # "finished action invocation, Indexes will be built in the background."
      /\ Len(progress) = Len(data.IndexNames) + 1
      /\ progress[Len(progress)] =
           "The following indexes need built: ["
             \o CommaFree(calls[k].req.IndexNames) \o "]"

C11_Witness ==
  /\ Done
  /\ Len(buildIndexes) = 2
  /\ \E k \in BuildCalls : calls[k].sent /\ calls[k].err # Nil /\ ~calls[k].afterCancel

\* ------------------------------------------------- Client.Do on its own
DoCodes == {199, 200, 204, 299, 300, 401, 500}
DoBodies ==
  {StatusBody("Created"), EmptyBody, NullBody, ObjectBody, BuildErrorBody, RawBody}
    \cup {ApiErrorBody(c, m) : c \in {"", "unauthorized"}, m \in {"", "no token"}}

DoInputs ==
  [op : {"input"}, code : DoCodes, body : DoBodies,
   target : {"status", "build", "none"},
   resp : {NoResp}, err : {Nil}, out : {NilOut}, text : {""}]

\* no invocation is running
AtRest ==
  /\ data = [OrganizationId |-> StringValue("org1"), ProjectId |-> StringValue("proj1"),
             ClusterId |-> StringValue("cl1"), BucketName |-> StringValue("b"),
             IndexNames |-> <<>>, ScopeName |-> StringNull,
             CollectionName |-> StringNull]
  /\ client = NewClient(BearerTokenAuth("abc123"))
  /\ pc = "done"
  /\ cancelled = FALSE
  /\ scope = ""
  /\ collection = ""
  /\ indexNames = <<>>
  /\ i = 1
  /\ res = NilOut
  /\ buildIndexes = <<>>
  /\ polls = 0
  /\ progress = <<>>
  /\ diags = <<>>
  /\ panicked = FALSE
  /\ calls = <<>>
  /\ decided = <<>>
  /\ cancelAt = -1

\* one response of the server, drawn from DoInputs, for one call of Client.Do
InitDo == AtRest /\ fx \in DoInputs

\* c.Get(ctx, "/health", nil, out) answered by the drawn response
DoRequest ==
  /\ fx.op = "input"
  /\ LET r == Do(client, cancelled, "GET", <<"health">>, NoQuery, FALSE, "",
                 fx.target, Reply("ok", fx.code, fx.body))
     IN  fx' = [fx EXCEPT !.op = "done", !.resp = r.resp, !.err = r.err, !.out = r.out]
  /\ UNCHANGED <<data, client, pc, cancelled, scope, collection, indexNames, i, res,
                 buildIndexes, polls, progress, diags, panicked, calls, decided,
                 cancelAt>>

\* apiError.Error applied to the apiError the drawn body unmarshals to
RenderError ==
  /\ fx.op = "input"
  /\ UnmarshalsAsApiError(fx.body)
  /\ fx' = [fx EXCEPT !.op = "rendered", !.text = ApiErrorText(ApiErrorOf(fx.body))]
  /\ UNCHANGED <<data, client, pc, cancelled, scope, collection, indexNames, i, res,
                 buildIndexes, polls, progress, diags, panicked, calls, decided,
                 cancelAt>>

NextDo ==
  \/ DoRequest
  \/ RenderError

SpecDo == InitDo /\ [][NextDo]_vars

\* ------------------------------------------------------------------ C12
\* the body is JSON of the shape the target type accepts
BodyDecodesInto(b, target) ==
  \/ target = "none"
  \/ b.kind \in {"null", "object"}
  \/ b.kind = "status" /\ target = "status"
  \/ b.kind = "build_error" /\ target = "build"

\* C12: for a status code outside 200..299 Client.Do returns an error and the
\* response, whatever the body and the target, and leaves the output value nil;
\* for a 2xx code with a body that decodes into the target it returns no error.
C12_Non2xxIsError ==
  fx.op = "done" =>
    /\ (fx.code < 200 \/ fx.code > 299) =>
         fx.err # Nil /\ fx.resp = fx.code /\ fx.out.nil
    /\ (fx.code >= 200 /\ fx.code <= 299 /\ BodyDecodesInto(fx.body, fx.target)) =>
         fx.err = Nil /\ fx.resp = fx.code

C12_Witness ==
  /\ fx.op = "done"
  /\ fx.code = 401
  /\ fx.body = ApiErrorBody("unauthorized", "no token")
  /\ fx.target = "status"
  /\ fx.err # Nil /\ fx.resp = 401

\* ------------------------------------------------------------------ C13
\* C13: apiError.Error gives "code: message" when both are non-empty, the
\* non-empty one when only one is, and "capella api error" when neither is.
\* Client.Do reports a non-2xx body that unmarshals to an apiError with a code
\* or a message as that text followed by the status, and every other non-2xx
\* body with the raw status code and body.
C13_ErrorRendering ==
  /\ fx.op = "rendered" =>
       LET c == IF fx.body.kind = "apierror" THEN fx.body.code ELSE ""
           m == IF fx.body.kind = "apierror" THEN fx.body.message ELSE ""
       IN  /\ (c # "" /\ m # "") => fx.text = c \o ": " \o m
           /\ (c # "" /\ m = "") => fx.text = c
           /\ (c = "" /\ m # "") => fx.text = m
           /\ (c = "" /\ m = "") => fx.text = "capella api error"
           /\ (c = "unauthorized" /\ m = "no token") => fx.text = "unauthorized: no token"
  /\ (fx.op = "done" /\ (fx.code < 200 \/ fx.code > 299)) =>
       IF fx.body.kind = "apierror" /\ (fx.body.code # "" \/ fx.body.message # "")
       THEN /\ (fx.body.code # "" /\ fx.body.message # "") =>
                 fx.err = fx.body.code \o ": " \o fx.body.message
                            \o " (status " \o ToString(fx.code) \o ")"
            /\ fx.body.message = "" =>
                 fx.err = fx.body.code \o " (status " \o ToString(fx.code) \o ")"
            /\ fx.body.code = "" =>
                 fx.err = fx.body.message \o " (status " \o ToString(fx.code) \o ")"
       ELSE /\ fx.err = "capella api request failed: status " \o ToString(fx.code)
                          \o ", body: " \o BodyText(fx.body)
            /\ (fx.code = 500 /\ fx.body = RawBody) =>
                 fx.err = "capella api request failed: status 500, body: oops"

C13_Witness ==
  /\ fx.op = "done"
  /\ fx.code = 401
  /\ fx.body = ApiErrorBody("unauthorized", "no token")
  /\ fx.err = "unauthorized: no token (status 401)"

\* ------------------------------------------------------------------ C14
\* the wait for position p gave up: MaxPolls re-polls all found it scheduled
WaitTimedOut(p) ==
  /\ Len(PollsAt(p)) = MaxPolls
  /\ \A m \in 1..Len(PollsAt(p)) :
       PollsAt(p)[m].err = Nil /\ PollsAt(p)[m].out.Status = "Scheduled for Creation"

\* C14: as soon as a status query, a re-poll of the wait or the build call
\* returns an error, or the wait gives up, the invocation is over, not in
\* success, with exactly one diagnostic: its summary names the operation, it
\* carries the error, and for a query or a wait it names the index.  An
\* invocation that ends in success made no call that returned an error.
C14_NoErrorSwallowed ==
  /\ \A k \in 1..Len(calls) :
       calls[k].err # Nil =>
         /\ Done /\ ~Success
         /\ k = Len(calls)
         /\ Len(diags) = 1
         /\ diags[1].err = calls[k].err
         /\ (calls[k].fn = "GetIndexBuildStatus" /\ calls[k].by = "Invoke") =>
              /\ diags[1].summary = "Get Index Build Status Failed"
              /\ diags[1].index = data.IndexNames[calls[k].pos]
         /\ (calls[k].fn = "GetIndexBuildStatus" /\ calls[k].by = "Wait") =>
              /\ diags[1].summary = "Wait for Scheduled Index Creation Failed"
              /\ diags[1].index = data.IndexNames[calls[k].pos]
         /\ calls[k].fn = "BuildDeferredIndexes" =>
              /\ diags[1].summary = "Build Deferred Indexes Failed"
              /\ diags[1].index = ""
  /\ \A q \in 1..Len(indexNames) :
       WaitTimedOut(q) =>
         /\ Done /\ ~Success
         /\ diags = <<Diag("Wait for Scheduled Index Creation Failed",
                           data.IndexNames[q],
                           "timeout waiting for scheduled index creation")>>
  /\ Success => \A k \in 1..Len(calls) : calls[k].err = Nil

C14_Witness ==
  /\ Done
  /\ \E k \in 1..Len(calls) :
       calls[k].by = "Wait" /\ calls[k].sent /\ calls[k].err # Nil /\ calls[k].pos = 1
  /\ Len(indexNames) = 2

\* ------------------------------------------------------------------ C15
\* the status the batch test sees for position p: the one the last re-poll of
\* the wait returned when there was a wait, else the one Invoke's query returned
FinalStatusAt(q) ==
  IF PollsAt(q) # <<>> THEN PollsAt(q)[Len(PollsAt(q))].out.Status
  ELSE calls[CHOOSE k \in InvokeQueries : calls[k].pos = q].out.Status

\* the query for position p returned a status, and so did the wait if there was one
SucceededAt(q) ==
  /\ \E k \in InvokeQueries :
       /\ calls[k].pos = q /\ calls[k].err = Nil /\ ~calls[k].out.nil
       /\ calls[k].out.Status = "Scheduled for Creation" => PollsAt(q) # <<>>
  /\ PollsAt(q) # <<>> =>
       /\ PollsAt(q)[Len(PollsAt(q))].err = Nil
       /\ PollsAt(q)[Len(PollsAt(q))].out.Status # "Scheduled for Creation"

RECURSIVE CreatedUpTo(_)
\* the requested names up to position n whose final status is Created, in order
CreatedUpTo(n) ==
  IF n = 0 THEN <<>>
  ELSE IF FinalStatusAt(n) = "Created"
       THEN Append(CreatedUpTo(n - 1), data.IndexNames[n])
       ELSE CreatedUpTo(n - 1)

\* C15: when the query and the wait of every requested index returned a status,
\* the batch is the requested list restricted to the entries whose final status
\* is Created, in input order; no query or wait diagnostic was added, and the
\* build call, if made, carries that batch.
C15_BatchIsCreatedSubsequence ==
  (ConfigRead /\ \A q \in 1..Len(data.IndexNames) : SucceededAt(q)) =>
    /\ buildIndexes = CreatedUpTo(Len(data.IndexNames))
    /\ \A n \in 1..Len(buildIndexes) :
         \E q \in 1..Len(data.IndexNames) : buildIndexes[n] = data.IndexNames[q]
    /\ \A n \in 1..Len(diags) : diags[n].summary = "Build Deferred Indexes Failed"
    /\ \A k \in BuildCalls : calls[k].req.IndexNames = CreatedUpTo(Len(data.IndexNames))

C15_Witness ==
  /\ Success
  /\ Len(data.IndexNames) = 2
  /\ data.IndexNames[1] # data.IndexNames[2]
  /\ QueryReturned(1, "Building")
  /\ QueryReturned(2, "Scheduled for Creation")
  /\ FinalStatusAt(2) = "Created"
  /\ buildIndexes = <<data.IndexNames[2]>>

\* ------------------------------------------------------------------ C16
\* position q was fully classified by the calls before call k: its query
\* returned a status, its wait (if any) returned a non-scheduled one, and the
\* batch test was made, all before k
ClassifiedBefore(q, k) ==
  /\ \E m \in InvokeQueries :
       /\ m < k /\ calls[m].pos = q /\ calls[m].err = Nil /\ ~calls[m].out.nil
       /\ calls[m].out.Status = "Scheduled for Creation" =>
            \E w \in 1..(k - 1) :
              /\ m < w
              /\ calls[w].by = "Wait" /\ calls[w].pos = q /\ calls[w].err = Nil
              /\ calls[w].out.Status # "Scheduled for Creation"
  /\ \A m \in 1..Len(calls) :
       (calls[m].fn # "BuildDeferredIndexes" /\ calls[m].pos = q) => m < k
  /\ \E n \in 1..Len(decided) : decided[n].pos = q /\ decided[n].at < k

\* C16: the calls of an invocation are made one after the other in input
\* order.  A call for position q (query, wait, re-poll) is made only after every
\* earlier position was fully classified; each position is queried by Invoke
\* once; the build call is the last call and is made only after every
\* requested position was fully classified.  A step makes one call (the wait
\* is entered in the step its query returned) and never removes one.
C16_StrictlySequential ==
  /\ [](/\ \A k \in 1..Len(calls) :
            /\ calls[k].fn # "BuildDeferredIndexes" =>
                 /\ calls[k].pos \in 1..Len(data.IndexNames)
                 /\ \A q \in 1..(calls[k].pos - 1) : ClassifiedBefore(q, k)
            /\ calls[k].fn = "BuildDeferredIndexes" =>
                 /\ k = Len(calls)
                 /\ \A q \in 1..Len(data.IndexNames) : ClassifiedBefore(q, k)
        /\ \A k, m \in InvokeQueries : calls[k].pos = calls[m].pos => k = m
        /\ \A k, m \in 1..Len(calls) :
             (k < m /\ calls[m].fn # "BuildDeferredIndexes") =>
               /\ calls[k].fn # "BuildDeferredIndexes"
               /\ calls[k].pos <= calls[m].pos)
  /\ [][/\ Len(calls') >= Len(calls)
        /\ SubSeq(calls', 1, Len(calls)) = calls
        /\ Len(calls') <= Len(calls) + 2
        /\ Len(calls') = Len(calls) + 2 =>
             /\ calls'[Len(calls')].fn = "WaitForScheduledIndexCreation"
             /\ calls'[Len(calls') - 1].out.Status = "Scheduled for Creation"]_vars

C16_Witness ==
  /\ Done
  /\ Len(data.IndexNames) = 2
  /\ Len(PollsAt(1)) = 2
  /\ QueryReturned(2, "Created")
  /\ \E k \in BuildCalls : calls[k].sent /\ k = 6

\* ------------------------------------------------------------------ C17
\* the status Invoke's query returned for position q
FirstStatusAt(q) == calls[CHOOSE k \in InvokeQueries : calls[k].pos = q].out.Status

\* the status events of the first n positions, in input order
StatusEvents(n) ==
  [q \in 1..n |-> "Index: " \o data.IndexNames[q] \o ", Status: " \o FirstStatusAt(q)]

\* the queries of Invoke that returned a status so far
StatusesReturned ==
  Cardinality({k \in InvokeQueries : calls[k].err = Nil /\ ~calls[k].out.nil})

\* C17: progress only grows by appending.  It starts with one status event per
\* index whose query returned a status, in input order, each with the status
\* that query returned and present before any re-poll for that index.  The
\* batch-listing event is there before the build call is made, and the final
\* event only after the build call returned no error.  On success progress is
\* the n status events followed by "No indexes need built" when the batch is
\* empty, and else by the batch listing and the final event.
C17_ProgressOnSuccess ==
  /\ [](/\ Len(progress) >= StatusesReturned
        /\ SubSeq(progress, 1, StatusesReturned) = StatusEvents(StatusesReturned)
        /\ \A q \in 1..Len(indexNames) : PollsAt(q) # <<>> => Len(progress) >= q
        /\ pc = "wait" => Len(progress) = i
        /\ pc = "build" =>
             /\ BuildCalls = {}
             /\ progress = StatusEvents(Len(data.IndexNames)) \o
                  <<"The following indexes need built: [" \o CommaFree(buildIndexes) \o "]">>
        /\ \A n \in 1..Len(progress) :
             progress[n] = "finished action invocation, Indexes will be built in the background."
               => /\ n = Len(progress)
                  /\ \E k \in BuildCalls : calls[k].err = Nil
        /\ Success =>
             IF buildIndexes = <<>>
             THEN /\ BuildCalls = {}
                  /\ progress = StatusEvents(Len(data.IndexNames)) \o
                                  <<"No indexes need built">>
             ELSE /\ Cardinality(BuildCalls) = 1
                  /\ progress = StatusEvents(Len(data.IndexNames)) \o
                       <<"The following indexes need built: ["
                           \o CommaFree(buildIndexes) \o "]",
                         "finished action invocation, Indexes will be built in the background.">>)
  /\ [][/\ Len(progress') >= Len(progress)
        /\ SubSeq(progress', 1, Len(progress)) = progress
        /\ Len(progress') <= Len(progress) + 1]_vars

C17_Witness ==
  /\ Success
  /\ Len(data.IndexNames) = 2
  /\ progress = <<"Index: idx1, Status: Scheduled for Creation",
                  "Index: idx 2, Status: Building",
                  "The following indexes need built: [idx1]",
                  "finished action invocation, Indexes will be built in the background.">>

\* ------------------------------------------------------------------ C18
\* C18: an invocation with an error is over and has exactly one diagnostic.
\* The step that records the error appends no progress event, and after it
\* neither progress nor the call history changes.  A failed status query at
\* position N leaves the status events of positions 1..N-1, a failed wait at N
\* those of 1..N, a failed build call all status events and the batch listing,
\* a failure to read the configuration no event and no call.
C18_FailureKeepsEarlierProgress ==
  /\ [](HasError =>
          /\ Done
          /\ Len(diags) = 1
          /\ \A n \in 1..Len(progress) :
               /\ progress[n] # "No indexes need built"
               /\ progress[n] #
                    "finished action invocation, Indexes will be built in the background."
          /\ diags[1].summary = "Get Index Build Status Failed" =>
               /\ calls[Len(calls)].by = "Invoke"
               /\ calls[Len(calls)].err = diags[1].err
               /\ progress = StatusEvents(calls[Len(calls)].pos - 1)
          /\ diags[1].summary = "Wait for Scheduled Index Creation Failed" =>
               /\ calls[Len(calls)].by = "Wait"
               /\ progress = StatusEvents(calls[Len(calls)].pos)
          /\ diags[1].summary = "Build Deferred Indexes Failed" =>
               /\ calls[Len(calls)].fn = "BuildDeferredIndexes"
               /\ progress = StatusEvents(Len(data.IndexNames)) \o
                    <<"The following indexes need built: ["
                        \o CommaFree(buildIndexes) \o "]">>
          /\ diags[1].summary \notin {"Get Index Build Status Failed",
                                      "Wait for Scheduled Index Creation Failed",
                                      "Build Deferred Indexes Failed"} =>
               progress = <<>> /\ calls = <<>>)
  /\ [][/\ diags' # diags => progress' = progress
        /\ HasError => (progress' = progress /\ calls' = calls /\ diags' = diags)]_vars

C18_Witness ==
  /\ Done /\ HasError
  /\ Len(data.IndexNames) = 2
  /\ diags[1].summary = "Get Index Build Status Failed"
  /\ diags[1].index = "idx 2"
  /\ calls[Len(calls)].sent
  /\ progress = <<"Index: idx1, Status: Created">>

\* ------------------------------------------------------------------ C19
\* the wait for position q failed: a re-poll returned an error, or it gave up
WaitFailedAt(q) ==
  \/ \E k \in 1..Len(calls) :
       calls[k].by = "Wait" /\ calls[k].fn = "GetIndexBuildStatus"
         /\ calls[k].pos = q /\ calls[k].err # Nil
  \/ WaitTimedOut(q)

\* C19: when the wait for position q failed, the invocation is over with the
\* one diagnostic "Wait for Scheduled Index Creation Failed" naming the index
\* at q; no build call was made, whatever the batch holds, and no call was made
\* for a position after q.
C19_WaitFailureAborts ==
  \A q \in 1..Len(indexNames) :
    WaitFailedAt(q) =>
      /\ Done /\ ~Success
      /\ Len(diags) = 1
      /\ diags[1].summary = "Wait for Scheduled Index Creation Failed"
      /\ diags[1].index = data.IndexNames[q]
      /\ BuildCalls = {}
      /\ \A k \in 1..Len(calls) : calls[k].pos \in 1..q
      /\ calls[Len(calls)].by = "Wait" /\ calls[Len(calls)].pos = q

C19_Witness ==
  /\ Done
  /\ Len(data.IndexNames) = 2
  /\ QueryReturned(1, "Created")
  /\ buildIndexes = <<data.IndexNames[1]>>
  /\ WaitTimedOut(2)
  /\ \A k \in 1..Len(calls) : calls[k].by = "Wait" => calls[k].sent

\* ------------------------------------------------------------------ C20
\* one step of Invoke itself: the goroutine running it is never suspended for
\* good, and every call it makes returns
InvokeStep ==
  \/ InvokeStart
  \/ QueryStatus
  \/ WaitPoll
  \/ AfterLoop
  \/ Build

\* the invocation under the assumption that Invoke keeps running
SpecLive == Init /\ [][Next]_vars /\ WF_vars(InvokeStep)

\* C20: every invocation eventually is over, in success or with a diagnostic,
\* when Invoke keeps running and each call returns.
C20_Terminates == <>(Done /\ (Success \/ HasError))

\* ------------------------------------------------------------------ C21
\* C21: every GetIndexBuildStatus call that returns no error returns a status
\* value, and Invoke never reads the status of a missing response.
C21_StatusNeverMissing ==
  /\ \A k \in 1..Len(calls) :
       (calls[k].fn = "GetIndexBuildStatus" /\ calls[k].err = Nil) => ~calls[k].out.nil
  /\ ~panicked

\* ------------------------------------------------------------------ C22
\* the summary Invoke gives the diagnostic of a failed call: the only part of
\* the outcome that is not the text of the error
FailureSummary(c) ==
  IF c.fn = "BuildDeferredIndexes" THEN "Build Deferred Indexes Failed"
  ELSE IF c.by = "Wait" THEN "Wait for Scheduled Index Creation Failed"
  ELSE "Get Index Build Status Failed"

\* C22: when a call is not made because the context is done, the invocation
\* ends with a diagnostic of a kind of its own, not the one a transport, remote
\* or decode failure of the same operation ends with.
C22_CancellationDistinct ==
  \A k \in 1..Len(calls) :
    (calls[k].afterCancel /\ ~calls[k].sent /\ calls[k].err # Nil) =>
      /\ Done
      /\ Len(diags) = 1
      /\ diags[1].summary # FailureSummary(calls[k])

\* ------------------------------------------------------------------ C23
MaxReinvocations == 1

\* what is left of a finished invocation: its calls, events and outcome
Finished ==
  [calls |-> calls, progress |-> progress, diags |-> diags,
   buildIndexes |-> buildIndexes, panicked |-> panicked, cancelAt |-> cancelAt]

\* before the first invocation there is none
NoFinished ==
  [calls |-> <<>>, progress |-> <<>>, diags |-> <<>>,
   buildIndexes |-> <<>>, panicked |-> FALSE, cancelAt |-> -1]

\* the configuration of the action that is invoked again
ReinvokedConfig ==
  [OrganizationId |-> StringValue("org1"), ProjectId |-> StringValue("proj1"),
   ClusterId |-> StringValue("cl1"), BucketName |-> StringValue("b"),
   IndexNames |-> <<"idx1", "idx 2">>, ScopeName |-> StringNull,
   CollectionName |-> StringValue("c")]

NewBatchKept(prev) == prev

\* var buildIndexes []string: the batch of an invocation starts empty, whatever
\* the batch of the invocation before held
NewBatch(prev) == <<>>

\* the action is invoked on one configuration, with the provider's client, and
\* invoked again when it is over
InitReinvoke ==
  /\ data = ReinvokedConfig
  /\ client = NewClient(BearerTokenAuth("abc123"))
  /\ pc = "start"
  /\ cancelled = FALSE
  /\ scope = ""
  /\ collection = ""
  /\ indexNames = <<>>
  /\ i = 1
  /\ res = NilOut
  /\ buildIndexes = <<>>
  /\ polls = 0
  /\ progress = <<>>
  /\ diags = <<>>
  /\ panicked = FALSE
  /\ calls = <<>>
  /\ decided = <<>>
  /\ cancelAt = -1
  /\ fx = [op |-> "invocations", round |-> 0, last |-> NoFinished]

\* Terraform calls Invoke again on the same BuildIndexAction, with the same
\* configuration, a new context and a new response: the locals of Invoke are
\* new, bi.Client is the one Configure stored
Reinvoke ==
  /\ pc = "done"
  /\ fx.round < MaxReinvocations
  /\ fx' = [fx EXCEPT !.round = fx.round + 1, !.last = Finished]
  /\ pc' = "start"
  /\ cancelled' = FALSE
  /\ scope' = ""
  /\ collection' = ""
  /\ indexNames' = <<>>
  /\ i' = 1
  /\ res' = NilOut
  /\ buildIndexes' = NewBatch(buildIndexes)
  /\ polls' = 0
  /\ progress' = <<>>
  /\ diags' = <<>>
  /\ panicked' = FALSE
  /\ calls' = <<>>
  /\ decided' = <<>>
  /\ cancelAt' = -1
  /\ UNCHANGED <<data, client>>

NextReinvoke ==
  \/ InvokeStart
  \/ QueryStatus
  \/ WaitPoll
  \/ AfterLoop
  \/ Build
  \/ Cancel
  \/ Reinvoke

SpecReinvoke == InitReinvoke /\ [][NextReinvoke]_vars

\* what the calls of an invocation returned, in order
Responses(cs) == [k \in 1..Len(cs) |-> <<cs[k].err, cs[k].out>>]

\* what reading the configuration reported
ConfigDiags(ds) == SelectSeq(ds, LAMBDA d : d.summary = "config")

\* the build call of the invocation before was sent and returned an error
LastBuildFailed ==
  \E k \in 1..Len(fx.last.calls) :
    /\ fx.last.calls[k].fn = "BuildDeferredIndexes"
    /\ fx.last.calls[k].sent
    /\ fx.last.calls[k].err # Nil

\* C23: an invocation starts with no call made, no event, no diagnostic and an
\* empty batch, whatever the invocation before did; when it is over and got the
\* same configuration result, the same responses and the same cancellation as
\* the invocation before, it made the same calls, emitted the same events and
\* ended with the same outcome.  After an invocation whose build call failed,
\* a re-invocation in which every query and wait returns a status queries
\* every index once again and, when it is over, has made one build call with
\* exactly the indexes whose final status is Created now.
C23_Stateless ==
  /\ pc = "start" =>
       calls = <<>> /\ progress = <<>> /\ diags = <<>> /\ buildIndexes = <<>>
  /\ (fx.round > 0 /\ Done
        /\ ConfigDiags(diags) = ConfigDiags(fx.last.diags)
        /\ Responses(calls) = Responses(fx.last.calls)
        /\ cancelAt = fx.last.cancelAt) =>
       Finished = fx.last
  /\ (fx.round > 0 /\ LastBuildFailed /\ ConfigRead
        /\ \A q \in 1..Len(data.IndexNames) : SucceededAt(q)) =>
       /\ \A q \in 1..Len(data.IndexNames) :
            Cardinality({k \in InvokeQueries : calls[k].pos = q}) = 1
       /\ buildIndexes = CreatedUpTo(Len(data.IndexNames))
       /\ Done =>
            IF CreatedUpTo(Len(data.IndexNames)) = <<>> THEN BuildCalls = {}
            ELSE /\ Cardinality(BuildCalls) = 1
                 /\ \A k \in BuildCalls :
                      calls[k].req.IndexNames = CreatedUpTo(Len(data.IndexNames))

C23_Witness ==
  /\ fx.round = 1
  /\ \E k \in 1..Len(fx.last.calls) :
       /\ fx.last.calls[k].fn = "BuildDeferredIndexes"
       /\ fx.last.calls[k].sent
       /\ fx.last.calls[k].err = "transport error"
       /\ fx.last.calls[k].req.IndexNames = <<"idx1", "idx 2">>
  /\ Success
  /\ QueryReturned(1, "Created") /\ QueryReturned(2, "Building")
  /\ \E k \in BuildCalls : calls[k].sent /\ calls[k].req.IndexNames = <<"idx1">>

\* ------------------------------------------------------------------ C24
\* C24: the outcome after the build call is decided by its error alone.  When
\* the call returns no error the invocation ends in success with the final
\* event, whether the response has an error field, has none, or is missing;
\* when it returns an error the invocation fails without the final event.
C24_BuildResponseDiscarded ==
  \A k \in BuildCalls :
    /\ Done
    /\ calls[k].err = Nil =>
         /\ calls[k].sent
         /\ Success
         /\ Len(progress) = Len(data.IndexNames) + 2
         /\ progress[Len(progress)] =
              "finished action invocation, Indexes will be built in the background."
    /\ calls[k].err # Nil =>
         /\ ~Success
         /\ \A n \in 1..Len(progress) :
              progress[n] #
                "finished action invocation, Indexes will be built in the background."

C24_Witness ==
  /\ Success
  /\ \E k \in BuildCalls :
       /\ calls[k].sent /\ calls[k].err = Nil
       /\ ~calls[k].out.nil /\ calls[k].out.Error = "x"
  /\ progress[Len(progress)] =
       "finished action invocation, Indexes will be built in the background."

====
